---- MODULE Spec2Model ----
(***************************************************************************)
(* Model of the SIP bot of sip-bot/src: the per-call conversation loop of  *)
(* AgentCall (agent_bot.py) and the transcription loop of                  *)
(* TranscriptionCall (transcription_bot.py).                               *)
(*                                                                         *)
(* One call is modelled.  Every coroutine started with                     *)
(* asyncio.create_task is an entry of `tasks`; its pc names the await it   *)
(* is suspended at.  One action is the code a coroutine runs between two   *)
(* awaits; the pjsua2 callbacks (onCallState, onCallMediaState) are        *)
(* actions of their own and interleave with the coroutines at every await. *)
(*                                                                         *)
(* Texts are sequences of one-character strings.  The fixed utterances of  *)
(* the source are abbreviated to short stand-ins (their content is never   *)
(* inspected by the code, only their length, by _speak).                   *)
(***************************************************************************)
EXTENDS Integers, Sequences, FiniteSets, TLC

\* ------------------------------------------------------------------ bounds
\* conversational tasks one call may get from media-state events
MaxLoops == 1
\* capture windows started during one call
MaxCaptures == 2
\* actual duration of a synthesized audio, in units of 0.1 s
MaxAudioDur == 2
\* fragments concatenated into one generation-service output (SpecPlan)
MaxFrags == 3

\* ------------------------------------------------------------------- texts
SENTINEL == <<"[", "E", "N", "D", "E", "]">>
GREETING == <<"G">>
REPROMPT_NO_AUDIO == <<"R">>
REPROMPT_NO_SPEECH == <<"S">>
APOLOGY == <<"A">>

Whitespace == {" "}

RECURSIVE LStrip(_)
LStrip(s) ==
    IF s # <<>> /\ Head(s) \in Whitespace THEN LStrip(Tail(s)) ELSE s

RECURSIVE RStrip(_)
RStrip(s) ==
    IF s # <<>> /\ s[Len(s)] \in Whitespace
    THEN RStrip(SubSeq(s, 1, Len(s) - 1))
    ELSE s

\* str.strip()
Strip(s) == RStrip(LStrip(s))

\* old occurs in s at index i
MatchAt(s, old, i) ==
    /\ i + Len(old) - 1 <= Len(s)
    /\ SubSeq(s, i, i + Len(old) - 1) = old

\* old in s
Contains(s, old) == \E i \in 1..Len(s) : MatchAt(s, old, i)

\* s.replace(old, ""): one pass from the left over the non-overlapping
\* occurrences of old; the result is not scanned again
RECURSIVE ReplaceFrom(_, _, _)
ReplaceFrom(s, old, i) ==
    IF i > Len(s) THEN <<>>
    ELSE IF MatchAt(s, old, i) THEN ReplaceFrom(s, old, i + Len(old))
    ELSE <<s[i]>> \o ReplaceFrom(s, old, i + 1)

Replace(s, old) == ReplaceFrom(s, old, 1)

\* --------------------------------------------------- external service results
\* the local `response` of a service call: unbound, bound to the text the
\* service returned, or left unbound because the call raised
NoResponse == [status |-> "unbound", text |-> <<>>]
Fault == [status |-> "raise", text |-> <<>>]
Ok(t) == [status |-> "ok", text |-> t]

\* Optional[str]
None == [none |-> TRUE, text |-> <<>>]
Some(t) == [none |-> FALSE, text |-> t]

\* `not x` for an Optional[str]: None and "" are both falsy
Falsy(x) == x.none \/ x.text = <<>>

TranscribeRaw(r) == IF r.status = "raise" THEN None ELSE Some(r.text)

\* AgentCall._transcribe / TranscriptionCall._transcribe_audio on the
\* service's result r
Transcribe(r) == IF r.status = "raise" THEN None ELSE Some(Strip(r.text))

GenerateResponseRetry(r) ==
    IF r.status = "raise"
    THEN [text |-> APOLOGY, should_end |-> FALSE]
    ELSE LET response_text == Strip(r.text)
         IN  [text |-> Strip(Replace(response_text, SENTINEL)),
              should_end |-> Contains(response_text, SENTINEL)]

\* AgentCall._generate_response on the service's result r
GenerateResponse(r) ==
    IF r.status = "raise"
    THEN [text |-> APOLOGY, should_end |-> TRUE]
    ELSE LET response_text == Strip(r.text)
         IN  [text |-> Strip(Replace(response_text, SENTINEL)),
              should_end |-> Contains(response_text, SENTINEL)]

\* len(text) * 0.1 seconds, in units of 0.1 s
EstDuration(text) == Len(text)

\* ------------------------------------------------- inputs of the environment
\* response.text of the transcription service, or its exception
WhisperResults ==
    {Fault, Ok(<<"H", "i">>), Ok(<<" ", "H", "i", " ">>), Ok(<<" ">>)}

\* message.content of the generation service, or its exception
GptResults ==
    {Fault, Ok(<<"o", "k">>), Ok(<<"b", "y", "e", " ">> \o SENTINEL)}

\* the synthesis service returns an audio (response.content) or raises
TtsResults == {"audio", "raise"}

\* actual durations of a synthesized audio, in units of 0.1 s
AudioDurations == 1..MaxAudioDur

\* recorder.getData(): samples, nothing, or an exception
CaptureResults == {"samples", "empty", "raise"}

\* --------------------------------------------------------------------- state
VARIABLES
    mode,                  \* BOT_MODE: "agent" or "transcription"
    inv_state,             \* ci.state of the call
    is_active,             \* AgentCall.is_active
    is_recording,          \* TranscriptionCall.is_recording
    recorders,             \* AudioMediaRecorders alive (self.recorder)
    player,                \* AgentCall.player is not None
    conversation_history,  \* AgentCall.conversation_history
    tasks,                 \* the coroutines started with asyncio.create_task
    playing,               \* tasks whose audio the remote party is hearing
    tmp_files,             \* temporary files of _speak on disk
    hangups,               \* invocations of Call.hangup
    sink,                  \* texts handed to ws_sender.send_transcript
    captures,              \* capture windows started so far
    plan_in,               \* SpecPlan: a result of the generation service
    plan_out               \* SpecPlan: what _generate_response made of it

vars == <<mode, inv_state, is_active, is_recording, recorders, player,
          conversation_history, tasks, playing, tmp_files, hangups, sink,
          captures, plan_in, plan_out>>

planVars == <<plan_in, plan_out>>
callVars == <<mode, inv_state, is_active, is_recording, recorders, player>>

\* a coroutine at pc with no local bound: pc is the await it is suspended at,
\* spk the await inside _speak, site the call site of _speak; text,
\* audio_data, response, tts_audio and should_end are the locals of the
\* frames (response: of _transcribe and _generate_response; tts_audio: the
\* audio_data of _speak)
NewTask(kind, pc) ==
    [kind |-> kind, pc |-> pc, spk |-> "none", site |-> "none",
     text |-> <<>>, audio_data |-> "unset", response |-> NoResponse,
     tts_audio |-> "unset", should_end |-> FALSE]

\* task 0 is _send_greeting, the tasks from 1 on are the loops in the order
\* of their creation: MaxLoops of them in Spec, one more in SpecMedia
GreetingId == 0
TaskIds == 0..(MaxLoops + 1)
NoTask == NewTask("none", "none")

Loops == {i \in TaskIds : tasks[i].kind \in {"loop", "tloop"}}
AgentLoops == {i \in TaskIds : tasks[i].kind = "loop"}
TLoops == {i \in TaskIds : tasks[i].kind = "tloop"}
Speakers == {i \in TaskIds : tasks[i].kind \in {"loop", "greeting"}}

\* AgentCall.__init__ / TranscriptionCall.__init__
CallInit ==
    /\ inv_state = "NULL"
    /\ is_active = FALSE
    /\ is_recording = FALSE
    /\ recorders = 0
    /\ player = FALSE
    /\ conversation_history = <<>>
    /\ tasks = [i \in TaskIds |-> NoTask]
    /\ playing = {}
    /\ tmp_files = 0
    /\ hangups = 0
    /\ sink = <<>>
    /\ captures = 0

\* main(): the bot mode comes from the configuration
Init ==
    /\ mode \in {"agent", "transcription"}
    /\ CallInit
    /\ plan_in = Fault
    /\ plan_out = [text |-> <<>>, should_end |-> FALSE, planned |-> FALSE]

\* ------------------------------------------------------------- pjsua2 callbacks
\* onCallState with ci.state == PJSIP_INV_STATE_CONFIRMED
OnCallStateConfirmed ==
    /\ inv_state = "NULL"
    /\ inv_state' = "CONFIRMED"
    /\ IF mode = "agent"
       THEN /\ is_active' = TRUE
            /\ tasks' = [tasks EXCEPT
                            ![GreetingId] = NewTask("greeting", "greet_sleep")]
       ELSE UNCHANGED <<is_active, tasks>>
    /\ UNCHANGED <<mode, is_recording, recorders, player,
                   conversation_history, playing, tmp_files, hangups, sink,
                   captures, planVars>>

OnCallStateDisconnectedKeepsFlag ==
    /\ inv_state # "DISCONNECTED"
    /\ inv_state' = "DISCONNECTED"
    /\ UNCHANGED <<mode, is_active, is_recording, recorders, player,
                   conversation_history, tasks, playing, tmp_files, hangups,
                   sink, captures, planVars>>

\* onCallState with ci.state == PJSIP_INV_STATE_DISCONNECTED
OnCallStateDisconnected ==
    /\ inv_state # "DISCONNECTED"
    /\ inv_state' = "DISCONNECTED"
    /\ IF mode = "agent"
       THEN is_active' = FALSE /\ UNCHANGED is_recording
       ELSE is_recording' = FALSE /\ UNCHANGED is_active
    /\ UNCHANGED <<mode, recorders, player, conversation_history, tasks,
                   playing, tmp_files, hangups, sink, captures, planVars>>

\* n more coroutines of the given kind
Spawn(ts, kind, n) ==
    LET first == Cardinality({i \in TaskIds : ts[i].kind = kind}) + 1
    IN  [i \in TaskIds |->
            IF i \in first..(first + n - 1) THEN NewTask(kind, "top") ELSE ts[i]]

\* the body of the for loop of onCallMediaState, run for n active audio
\* media of ci.media: self.recorder is bound to a new recorder each time (a
\* recorder that nothing refers to any more is destroyed) and each time a new
\* loop is started
MediaActive(n) ==
    /\ recorders' = 1
    /\ IF mode = "agent"
       THEN /\ player' = TRUE
            /\ tasks' = Spawn(tasks, "loop", n)
            /\ UNCHANGED is_recording
       ELSE /\ is_recording' = TRUE
            /\ tasks' = Spawn(tasks, "tloop", n)
            /\ UNCHANGED player
    /\ UNCHANGED <<mode, inv_state, is_active, conversation_history, playing,
                   tmp_files, hangups, sink, captures, planVars>>

\* onCallMediaState with n active audio media in ci.media (pjsua2 delivers
\* no callback to a call that is disconnected; the event may precede
\* CONFIRMED)
OnCallMediaState(n) ==
    /\ inv_state # "DISCONNECTED"
    /\ Cardinality(Loops) + n <= MaxLoops
    /\ MediaActive(n)

\* ------------------------------------------------------------ AgentCall._speak
\* the call self._speak(text) up to its first await (the synthesis request)
StartSpeak(t, text, site) ==
    [t EXCEPT !.pc = "speak", !.spk = "tts", !.site = site, !.text = text,
              !.tts_audio = "unset"]

\* `continue`, or the end of the loop body: back to the while condition
Continue(t) == [t EXCEPT !.pc = "top", !.spk = "none"]

\* the coroutine returns: its frame is gone (the model keeps should_end, the
\* reason for a break)
Return(t) == [NewTask(t.kind, "done") EXCEPT !.should_end = t.should_end]

SpeakReturnNoHangup(t) ==
    IF t.site = "greeting" THEN Return(t) ELSE Continue(t)

\* the code after `await self._speak(...)` at each call site, up to the next
\* await
SpeakReturn(t) ==
    IF t.site = "greeting" THEN Return(t)
    ELSE IF t.site = "response" /\ t.should_end
    THEN [t EXCEPT !.pc = "end_sleep", !.spk = "none"]
    ELSE Continue(t)

\* `except Exception as e:` of _speak: the error is logged and _speak returns
SpeakFailedRaises(t) == [t EXCEPT !.pc = "except_sleep", !.spk = "none"]

SpeakFailed(t) == SpeakReturn(t)

\* _speak: the synthesis request returns r (or raises); the temporary file
\* is written; with a player, createPlayer and startTransmit run (p says
\* whether they raise) and the coroutine sleeps for the estimated duration
SpeakTtsDone(i, r, p) ==
    /\ i \in Speakers
    /\ tasks[i].pc = "speak" /\ tasks[i].spk = "tts"
    /\ IF r = "raise"
       THEN /\ tasks' = [tasks EXCEPT ![i] = SpeakFailed(tasks[i])]
            /\ UNCHANGED <<tmp_files, playing>>
       ELSE IF ~player
       THEN /\ tasks' = [tasks EXCEPT ![i] =
                    SpeakReturn([tasks[i] EXCEPT !.tts_audio = "bytes"])]
            /\ UNCHANGED <<tmp_files, playing>>
       ELSE IF p = "raise"
       THEN /\ tasks' = [tasks EXCEPT ![i] =
                    SpeakFailed([tasks[i] EXCEPT !.tts_audio = "bytes"])]
            /\ tmp_files' = tmp_files + 1
            /\ UNCHANGED playing
       ELSE /\ tasks' = [tasks EXCEPT ![i] =
                    [tasks[i] EXCEPT !.spk = "play", !.tts_audio = "bytes"]]
            /\ tmp_files' = tmp_files + 1
            /\ playing' = playing \cup {i}
    /\ UNCHANGED <<callVars, conversation_history, hangups, sink, captures,
                   planVars>>

\* _speak: asyncio.sleep(len(text) * 0.1) is over; the audio, which lasts
\* dur, is still being heard when it is longer than the estimate; the
\* temporary file is unlinked
SpeakPlayDone(i, dur) ==
    /\ i \in Speakers
    /\ tasks[i].pc = "speak" /\ tasks[i].spk = "play"
    /\ playing' = IF dur > EstDuration(tasks[i].text)
                  THEN playing
                  ELSE playing \ {i}
    /\ tmp_files' = tmp_files - 1
    /\ tasks' = [tasks EXCEPT ![i] = SpeakReturn(tasks[i])]
    /\ UNCHANGED <<callVars, conversation_history, hangups, sink, captures,
                   planVars>>

\* the player reaches the end of an audio file that outlasted its sleep
PlaybackEnds(i) ==
    /\ i \in playing
    /\ ~(tasks[i].pc = "speak" /\ tasks[i].spk = "play")
    /\ playing' = playing \ {i}
    /\ UNCHANGED <<callVars, conversation_history, tasks, tmp_files, hangups,
                   sink, captures, planVars>>

\* _send_greeting: asyncio.sleep(0.5) is over
GreetingSleepDone(i) ==
    /\ tasks[i].kind = "greeting" /\ tasks[i].pc = "greet_sleep"
    /\ tasks' = [tasks EXCEPT ![i] = StartSpeak(tasks[i], GREETING, "greeting")]
    /\ UNCHANGED <<callVars, conversation_history, playing, tmp_files,
                   hangups, sink, captures, planVars>>

\* -------------------------------------------- AgentCall._conversation_loop
\* `while self.is_active:` is evaluated; when true the turn starts with
\* _listen_for_speech, which sleeps for the capture window (every local of
\* the last turn is assigned again before it is read: the model unbinds them)
LoopTop(i) ==
    /\ i \in AgentLoops
    /\ tasks[i].pc = "top"
    /\ IF is_active
       THEN /\ captures < MaxCaptures
            /\ captures' = captures + 1
            /\ tasks' = [tasks EXCEPT ![i] = NewTask("loop", "listen")]
       ELSE /\ tasks' = [tasks EXCEPT ![i] = Return(tasks[i])]
            /\ UNCHANGED captures
    /\ UNCHANGED <<callVars, conversation_history, playing, tmp_files,
                   hangups, sink, planVars>>

\* _listen_for_speech on the outcome res of recorder.getData(): the WAV
\* bytes, or None for no samples and for an exception
ListenForSpeech(res) == IF res = "samples" THEN "bytes" ELSE "None"

AfterListenHangup(t, audio_data) ==
    IF audio_data = "None"
    THEN [t EXCEPT !.audio_data = audio_data, !.pc = "end_sleep"]
    ELSE [t EXCEPT !.audio_data = audio_data, !.pc = "transcribe"]

AfterListenQuiet(t, audio_data) ==
    IF audio_data = "None"
    THEN Continue([t EXCEPT !.audio_data = audio_data])
    ELSE [t EXCEPT !.audio_data = audio_data, !.pc = "transcribe"]

\* `if not audio_data:` without audio the re-prompt is spoken, otherwise the
\* transcription request is sent
AfterListen(t, audio_data) ==
    IF audio_data = "None"
    THEN StartSpeak([t EXCEPT !.audio_data = audio_data],
                    REPROMPT_NO_AUDIO, "silence")
    ELSE [t EXCEPT !.audio_data = audio_data, !.pc = "transcribe"]

\* the capture window is over
ListenDone(i, res) ==
    /\ i \in AgentLoops
    /\ tasks[i].pc = "listen"
    /\ tasks' = [tasks EXCEPT ![i] =
                    AfterListen(tasks[i], ListenForSpeech(res))]
    /\ UNCHANGED <<callVars, conversation_history, playing, tmp_files,
                   hangups, sink, captures, planVars>>

\* the transcription request is over: without text the second re-prompt is
\* spoken, otherwise the text joins the history and the generation request
\* is sent
TranscribeDone(i, r) ==
    /\ i \in AgentLoops
    /\ tasks[i].pc = "transcribe"
    /\ LET user_text == Transcribe(r)
           t == [tasks[i] EXCEPT !.response = r]
       IN  IF Falsy(user_text)
           THEN /\ tasks' = [tasks EXCEPT ![i] =
                        StartSpeak(t, REPROMPT_NO_SPEECH, "nospeech")]
                /\ UNCHANGED conversation_history
           ELSE /\ conversation_history' =
                        Append(conversation_history,
                               [role |-> "user", content |-> user_text.text])
                /\ tasks' = [tasks EXCEPT ![i] = [t EXCEPT !.pc = "generate"]]
    /\ UNCHANGED <<callVars, playing, tmp_files, hangups, sink, captures,
                   planVars>>

\* the generation request is over: the response joins the history and is
\* spoken
GenerateDone(i, r) ==
    /\ i \in AgentLoops
    /\ tasks[i].pc = "generate"
    /\ LET g == GenerateResponse(r)
       IN  /\ conversation_history' =
                  Append(conversation_history,
                         [role |-> "assistant", content |-> g.text])
           /\ tasks' = [tasks EXCEPT ![i] =
                  StartSpeak([tasks[i] EXCEPT !.response = r,
                                              !.should_end = g.should_end],
                             g.text, "response")]
    /\ UNCHANGED <<callVars, playing, tmp_files, hangups, sink, captures,
                   planVars>>

\* Call.hangup raises when the call is already disconnected (pjsua2 has
\* invalidated the call id) and succeeds on a call that is still up
HangupRaises == inv_state = "DISCONNECTED"

EndSleepDonePropagates(i) ==
    /\ i \in AgentLoops
    /\ tasks[i].pc = "end_sleep"
    /\ hangups' = hangups + 1
    /\ tasks' = [tasks EXCEPT ![i] = Return(tasks[i])]
    /\ UNCHANGED <<callVars, conversation_history, playing, tmp_files, sink,
                   captures, planVars>>

\* `if should_end:` after asyncio.sleep(1): hangup is invoked and the loop
\* breaks, or hangup raises and the handler of the loop sleeps
EndSleepDone(i) ==
    /\ i \in AgentLoops
    /\ tasks[i].pc = "end_sleep"
    /\ hangups' = hangups + 1
    /\ tasks' = [tasks EXCEPT ![i] =
                    IF HangupRaises
                    THEN [tasks[i] EXCEPT !.pc = "except_sleep"]
                    ELSE Return(tasks[i])]
    /\ UNCHANGED <<callVars, conversation_history, playing, tmp_files, sink,
                   captures, planVars>>

\* `except Exception` of the loop: asyncio.sleep(1) is over
ExceptSleepDone(i) ==
    /\ i \in AgentLoops
    /\ tasks[i].pc = "except_sleep"
    /\ tasks' = [tasks EXCEPT ![i] = Continue(tasks[i])]
    /\ UNCHANGED <<callVars, conversation_history, playing, tmp_files,
                   hangups, sink, captures, planVars>>

\* ------------------------------------ TranscriptionCall._transcription_loop
\* _get_audio_chunk on the outcome res of recorder.getData()
GetAudioChunk(res) == IF res = "samples" THEN "bytes" ELSE "None"

\* `while self.is_recording:` is evaluated; when true _get_audio_chunk runs
\* (it does not await): without audio the loop sleeps 0.1 s, otherwise the
\* transcription request is sent
TLoopTop(i, res) ==
    /\ i \in TLoops
    /\ tasks[i].pc = "top"
    /\ IF is_recording
       THEN /\ captures < MaxCaptures
            /\ captures' = captures + 1
            /\ LET audio_data == GetAudioChunk(res)
               IN  tasks' = [tasks EXCEPT ![i] =
                      [NewTask("tloop", IF audio_data = "None"
                                        THEN "idle_sleep" ELSE "transcribe")
                          EXCEPT !.audio_data = audio_data]]
       ELSE /\ tasks' = [tasks EXCEPT ![i] = Return(tasks[i])]
            /\ UNCHANGED captures
    /\ UNCHANGED <<callVars, conversation_history, playing, tmp_files,
                   hangups, sink, planVars>>

\* asyncio.sleep(0.1) after an empty chunk is over
TIdleSleepDone(i) ==
    /\ i \in TLoops
    /\ tasks[i].pc = "idle_sleep"
    /\ tasks' = [tasks EXCEPT ![i] = Continue(tasks[i])]
    /\ UNCHANGED <<callVars, conversation_history, playing, tmp_files,
                   hangups, sink, captures, planVars>>

\* the transcription request is over: a transcript is handed to
\* ws_sender.send_transcript, without one the loop iterates
TTranscribeDone(i, r) ==
    /\ i \in TLoops
    /\ tasks[i].pc = "transcribe"
    /\ LET transcript == Transcribe(r)
           t == [tasks[i] EXCEPT !.response = r]
       IN  IF Falsy(transcript)
           THEN /\ tasks' = [tasks EXCEPT ![i] = Continue(t)]
                /\ UNCHANGED sink
           ELSE /\ sink' = Append(sink, transcript.text)
                /\ tasks' = [tasks EXCEPT ![i] =
                        [t EXCEPT !.pc = "send", !.text = transcript.text]]
    /\ UNCHANGED <<callVars, conversation_history, playing, tmp_files,
                   hangups, captures, planVars>>

\* send_transcript returns, or raises into the handler of the loop
TSendDone(i, ok) ==
    /\ i \in TLoops
    /\ tasks[i].pc = "send"
    /\ tasks' = [tasks EXCEPT ![i] =
                    IF ok THEN Continue(tasks[i])
                    ELSE [tasks[i] EXCEPT !.pc = "except_sleep"]]
    /\ UNCHANGED <<callVars, conversation_history, playing, tmp_files,
                   hangups, sink, captures, planVars>>

\* `except Exception` of the loop: asyncio.sleep(1) is over
TExceptSleepDone(i) ==
    /\ i \in TLoops
    /\ tasks[i].pc = "except_sleep"
    /\ tasks' = [tasks EXCEPT ![i] = Continue(tasks[i])]
    /\ UNCHANGED <<callVars, conversation_history, playing, tmp_files,
                   hangups, sink, captures, planVars>>

\* ------------------------------------------------------------ specification
Next ==
    \/ OnCallStateConfirmed
    \/ OnCallStateDisconnected
    \/ \E n \in 1..MaxLoops : OnCallMediaState(n)
    \/ \E i \in TaskIds : GreetingSleepDone(i)
    \/ \E i \in TaskIds, r \in TtsResults, p \in {"ok", "raise"} :
           SpeakTtsDone(i, r, p)
    \/ \E i \in TaskIds, dur \in AudioDurations : SpeakPlayDone(i, dur)
    \/ \E i \in TaskIds : PlaybackEnds(i)
    \/ \E i \in TaskIds : LoopTop(i)
    \/ \E i \in TaskIds, res \in CaptureResults : ListenDone(i, res)
    \/ \E i \in TaskIds, r \in WhisperResults : TranscribeDone(i, r)
    \/ \E i \in TaskIds, r \in GptResults : GenerateDone(i, r)
    \/ \E i \in TaskIds : EndSleepDone(i)
    \/ \E i \in TaskIds : ExceptSleepDone(i)
    \/ \E i \in TaskIds, res \in CaptureResults : TLoopTop(i, res)
    \/ \E i \in TaskIds : TIdleSleepDone(i)
    \/ \E i \in TaskIds, r \in WhisperResults : TTranscribeDone(i, r)
    \/ \E i \in TaskIds, ok \in BOOLEAN : TSendDone(i, ok)
    \/ \E i \in TaskIds : TExceptSleepDone(i)

Spec == Init /\ [][Next]_vars

\* a call whose media-state events start one loop more than Spec allows: the
\* callback is delivered again to a call that has loops, or one event reports
\* several active audio media
OnCallMediaStateMore(n) ==
    /\ inv_state # "DISCONNECTED"
    /\ Cardinality(Loops) + n = MaxLoops + 1
    /\ MediaActive(n)

NextMedia ==
    \/ Next
    \/ \E n \in 1..(MaxLoops + 1) : OnCallMediaStateMore(n)

SpecMedia == Init /\ [][NextMedia]_vars

\* the event loop resumes a coroutine whose sleep is over, and runs a
\* coroutine that is ready, at the while condition of its loop
TimerStep(i) ==
    \/ GreetingSleepDone(i)
    \/ \E dur \in AudioDurations : SpeakPlayDone(i, dur)
    \/ LoopTop(i)
    \/ \E res \in CaptureResults : ListenDone(i, res)
    \/ EndSleepDone(i)
    \/ ExceptSleepDone(i)
    \/ \E res \in CaptureResults : TLoopTop(i, res)
    \/ TIdleSleepDone(i)
    \/ TExceptSleepDone(i)

\* asyncio runs every timer that is due; the requests to the transcription,
\* generation and synthesis services and to the sink are awaited without a
\* timeout, so nothing makes them return
SpecFair == Spec /\ \A i \in TaskIds : WF_vars(TimerStep(i))

\* --------------------------------------------- _generate_response in isolation
Fragments ==
    {SENTINEL, <<"[", "E", "N">>, <<"D", "E", "]">>, <<"a">>, <<" ">>}

RECURSIVE Concats(_)
Concats(n) ==
    IF n = 0 THEN {<<>>}
    ELSE LET shorter == Concats(n - 1)
         IN  shorter \cup {s \o f : s \in shorter, f \in Fragments}

\* results of the generation service: a text of at most MaxFrags fragments,
\* or an exception
PlanInputs == {Fault} \cup {Ok(s) : s \in Concats(MaxFrags)}

NotPlanned == [text |-> <<>>, should_end |-> FALSE, planned |-> FALSE]

InitPlan ==
    /\ mode = "agent"
    /\ CallInit
    /\ plan_in \in PlanInputs
    /\ plan_out = NotPlanned

Plan ==
    /\ ~plan_out.planned
    /\ LET g == GenerateResponse(plan_in)
       IN  plan_out' = [text |-> g.text, should_end |-> g.should_end,
                        planned |-> TRUE]
    /\ UNCHANGED <<callVars, conversation_history, tasks, playing, tmp_files,
                   hangups, sink, captures, plan_in>>

NextPlan == Plan

SpecPlan == InitPlan /\ [][NextPlan]_vars

TypeOK ==
    /\ mode \in {"agent", "transcription"}
    /\ inv_state \in {"NULL", "CONFIRMED", "DISCONNECTED"}
    /\ is_active \in BOOLEAN /\ is_recording \in BOOLEAN
    /\ recorders \in 0..1
    /\ tmp_files \in 0..(2 * MaxCaptures + 1)
    /\ hangups \in 0..(MaxLoops + 1)
    /\ captures \in 0..MaxCaptures
    /\ playing \subseteq Speakers

\* ------------------------------------------------------------------- claims
\* the stage boundaries of a turn: task i starts a capture, a transcription
\* request, a generation request, a synthesis request, a playback or a hangup
StartsStage(i) ==
    LET t == tasks[i]
        u == tasks'[i]
    IN  \/ u.pc = "listen" /\ t.pc # "listen"
        \/ u.pc = "transcribe" /\ t.pc # "transcribe"
        \/ u.pc = "generate" /\ t.pc # "generate"
        \/ u.pc = "speak" /\ u.spk = "tts" /\ ~(t.pc = "speak" /\ t.spk = "tts")
        \/ u.spk = "play" /\ t.spk # "play"
        \/ t.pc = "end_sleep" /\ hangups' # hangups

\* C1: once the Disconnected callback has cleared the active flag, no loop
\* starts a further stage (transcription, generation, synthesis, playback,
\* hangup): the stage in flight returns and the loop is Closed.
CancelWithinOneStage ==
    [][\A i \in Loops : inv_state = "DISCONNECTED" => ~StartsStage(i)]_vars

\* C2: a step that puts or keeps a loop in a turn whose capture was empty
\* never closes the loop, never clears the active flag and never invokes
\* hangup, in agent and in transcription mode.
SilenceNeverCloses ==
    [][\A i \in Loops :
          (tasks'[i] # tasks[i] /\ tasks'[i].audio_data = "None")
              => /\ tasks'[i].pc \notin {"done", "end_sleep", "except_sleep"}
                 /\ hangups' = hangups
                 /\ is_active' = is_active
                 /\ is_recording' = is_recording]_vars

\* a loop still running on an active call after a second capture in a row
\* came back empty
SilenceWitness ==
    \E i \in Loops :
        /\ tasks[i].audio_data = "None" /\ tasks[i].pc = "top"
        /\ captures = 2
        /\ conversation_history = <<>> /\ sink = <<>>
        /\ hangups = 0
        /\ IF mode = "agent" THEN is_active ELSE is_recording

\* C3: for every output of the generation service that contains the
\* sentinel, _generate_response returns should_end = TRUE and a text without
\* the sentinel.
PlanStripsSentinel ==
    (plan_out.planned /\ plan_in.status = "ok"
                      /\ Contains(plan_in.text, SENTINEL))
        => (plan_out.should_end /\ ~Contains(plan_out.text, SENTINEL))

\* the generation request of the turn of loop i raised
GenFault(i) ==
    tasks[i].site = "response" /\ tasks[i].response.status = "raise"

\* C4: after a fault of the generation service the turn holds the fixed
\* apology and should_end = TRUE, the apology is in the history and is the
\* text spoken, and the loop goes on to the hangup: it is never back at an
\* active while condition, so it issues no other generation request.
GenerationFaultEndsCall ==
    \A i \in AgentLoops :
        GenFault(i) =>
            /\ tasks[i].should_end
            /\ tasks[i].text = APOLOGY
            /\ \E k \in 1..Len(conversation_history) :
                   conversation_history[k] =
                       [role |-> "assistant", content |-> APOLOGY]
            /\ tasks[i].pc \in {"speak", "end_sleep", "except_sleep", "top"}
            /\ tasks[i].pc = "top" => ~is_active
            /\ tasks[i].pc \in {"except_sleep", "top"} => hangups >= 1

\* the apology has been synthesized and played on a connected call and the
\* loop is about to hang up
GenerationFaultWitness ==
    \E i \in AgentLoops :
        /\ GenFault(i)
        /\ tasks[i].pc = "end_sleep" /\ tasks[i].tts_audio = "bytes"
        /\ inv_state = "CONFIRMED"

TranscriptionFailureRetried ==
    [][\A i \in AgentLoops :
          (tasks[i].pc = "transcribe" /\ tasks'[i] # tasks[i]
                /\ tasks'[i].response.status = "raise")
              => tasks'[i].pc \in {"transcribe", "done"}]_vars

\* C7: a loop whose plan stage yielded should_end = TRUE is speaking the
\* final utterance, or past it on the way to the hangup, or Closed; it is
\* never in a later capture, transcription or generation stage, and hangup has
\* been invoked exactly once for each such loop that is past _speak.
EndAfterFinalUtterance ==
    /\ \A i \in AgentLoops :
          tasks[i].should_end =>
              \/ tasks[i].pc = "speak" /\ tasks[i].site = "response"
              \/ tasks[i].pc \in {"end_sleep", "except_sleep", "done"}
              \/ tasks[i].pc = "top" /\ ~is_active
    /\ hangups = Cardinality({i \in AgentLoops :
                      /\ tasks[i].should_end
                      /\ tasks[i].pc \in {"except_sleep", "top", "done"}})

\* the generator ended the conversation, the final utterance is in the
\* history, the call was hung up while connected and the loop is Closed
GracefulEndWitness ==
    \E i \in AgentLoops :
        /\ tasks[i].should_end /\ tasks[i].pc = "done"
        /\ hangups = 1 /\ inv_state = "CONFIRMED"
        /\ conversation_history # <<>>
        /\ conversation_history[Len(conversation_history)] =
               [role |-> "assistant", content |-> <<"b", "y", "e">>]

\* C8: in transcription mode, a transcription that yields usable text hands
\* exactly that text to the sink exactly once and the loop goes back to its
\* while condition after the delivery; an empty or failed transcription
\* hands nothing over; no step invokes hangup or plays audio.
TranscriptReachesSink ==
    [][mode = "transcription" =>
          /\ hangups' = hangups
          /\ playing' = {}
          /\ \A i \in TLoops :
                LET t == tasks[i]
                    u == tasks'[i]
                    r == u.response
                IN  /\ (t.pc = "transcribe" /\ u.pc # "transcribe") =>
                           IF r.status = "ok" /\ Strip(r.text) # <<>>
                           THEN /\ sink' = Append(sink, Strip(r.text))
                                /\ u.pc = "send"
                           ELSE sink' = sink /\ u.pc = "top"
                    /\ (t.pc # "transcribe" /\ u # t) => sink' = sink
                    /\ (t.pc = "send" /\ u.pc # "send")
                           => u.pc \in {"top", "except_sleep"}
                    /\ u.pc # "speak"]_vars

\* the service answered " Hi ", the sink holds "Hi" once and the loop is back
\* at its while condition on a call that is still recorded
SinkWitness ==
    \E i \in TLoops :
        /\ tasks[i].pc = "top"
        /\ tasks[i].response = Ok(<<" ", "H", "i", " ">>)
        /\ sink = << <<"H", "i">> >>
        /\ is_recording

\* C9: when the synthesis request of a turn raises, _speak returns to its
\* call site (the end check after a response, the while condition after a
\* re-prompt), no playback starts, no temporary file is left, and the active
\* flag and the history are as before.
SynthesisFailureNonFatal ==
    [][\A i \in AgentLoops :
          LET t == tasks[i]
              u == tasks'[i]
          IN  (t.pc = "speak" /\ t.spk = "tts" /\ u # t
                   /\ u.tts_audio = "unset")
                  => /\ u.pc = IF t.site = "response" /\ t.should_end
                               THEN "end_sleep" ELSE "top"
                     /\ u.spk = "none"
                     /\ playing' = playing
                     /\ tmp_files' = tmp_files
                     /\ is_active' = is_active
                     /\ conversation_history' = conversation_history]_vars

\* the synthesis of a response failed, the call is active and the loop is
\* back at its while condition with a capture window left to start
SynthesisFailureWitness ==
    \E i \in AgentLoops :
        /\ tasks[i].pc = "top" /\ tasks[i].site = "response"
        /\ tasks[i].tts_audio = "unset" /\ ~tasks[i].should_end
        /\ is_active /\ captures < MaxCaptures

\* C10: no capture window of a loop starts while the audio of the loop's
\* previous utterance is still being played.
CaptureAfterPlayback ==
    \A i \in AgentLoops : tasks[i].pc = "listen" => i \notin playing

\* C11: a request to an external service that never responds still ends,
\* with the failure outcome, after its timeout: no loop waits for a service
\* forever, so after a disconnect every loop of the call eventually reaches
\* Closed.
HungDependencyTimesOut ==
    (inv_state = "DISCONNECTED") ~> (\A i \in Loops : tasks[i].pc = "done")

\* C12: when an end signal (the Disconnected callback, or an end requested
\* by the generator) makes a loop take its Closed transition, the audio
\* channel acquired at media activation has been released: no recorder still
\* receives the call's audio and no player is still connected to it.
AudioChannelReleasedOnClose ==
    [][\A i \in Loops :
          (tasks[i].pc # "done" /\ tasks'[i].pc = "done"
               /\ (inv_state = "DISCONNECTED" \/ tasks[i].should_end))
              => (recorders' = 0 /\ ~player')]_vars

\* C13: at most one stage of a call executes at a time: while a loop is in
\* its capture window no other task of the call, the greeting task included,
\* is in a synthesis request or plays audio.
OneStageAtATime ==
    \A i \in AgentLoops :
        tasks[i].pc = "listen"
            => /\ playing \subseteq {i}
               /\ \A j \in Speakers \ {i} : tasks[j].pc # "speak"

\* C14: in agent mode the first capture window of a call starts only after the greeting
\* has been synthesized and played: a step that starts a capture finds the
\* greeting task returned and the greeting no longer playing.
GreetingBeforeFirstCapture ==
    [][(mode = "agent" /\ captures' # captures)
          => (tasks[GreetingId].pc = "done" /\ GreetingId \notin playing)]_vars

\* C15: termination is issued only for a call that is not already
\* disconnected: hangup is never invoked after the Disconnected callback has
\* cleared the active flag.
HangupOnlyWhileConnected ==
    [][hangups' # hangups => (inv_state # "DISCONNECTED" /\ is_active)]_vars

\* C16: every temporary file written by _speak is deleted by the time _speak
\* returns: the files on disk are those of the tasks that are inside _speak,
\* waiting for the end of their playback.
TempFilesReleased ==
    tmp_files = Cardinality({i \in Speakers :
                                tasks[i].pc = "speak" /\ tasks[i].spk = "play"})

\* C17: the history is append-only and alternates strictly, user entry
\* first: no step changes or removes an entry, after every step the entries at
\* odd positions are user entries and those at even positions assistant
\* entries, and a turn that ends in NoAudio, NoSpeech or a transcription
\* failure (a re-prompt) leaves the history as it was and sends no generation
\* request.
HistoryAlternates ==
    [][LET h == conversation_history
           g == conversation_history'
       IN  /\ Len(g) >= Len(h) /\ SubSeq(g, 1, Len(h)) = h
           /\ \A k \in 1..Len(g) :
                  g[k].role = IF k % 2 = 1 THEN "user" ELSE "assistant"
           /\ \A i \in AgentLoops :
                  (tasks[i].pc \in {"listen", "transcribe"}
                        /\ tasks'[i].pc \notin {"listen", "transcribe",
                                                "generate"})
                      => (g = h /\ tasks'[i].site \in {"silence", "nospeech"})
      ]_vars

\* C18: a call has at most one conversation or transcription loop and at most
\* one recorder at any time, whatever media-state events it gets.
OneLoopPerCall ==
    Cardinality(Loops) <= 1 /\ recorders <= 1

LoopRunsAfterBothEvents ==
    (mode = "agent" /\ inv_state = "CONFIRMED" /\ AgentLoops # {}
                    /\ hangups = 0)
        => \E i \in AgentLoops : tasks[i].pc # "done"

\* C21: no fault takes a loop out of its task: a loop returns only from its
\* while condition with the flag of the call cleared, or from the break that
\* follows a hangup that did not raise; a loop that has run a stage returns
\* only on a call that is disconnected or has been hung up; and every fault
\* of a stage is caught inside the loop: a failed transcription leads to the
\* re-prompt (agent) or to the next iteration (transcription), a failed
\* generation to the apology with should_end, a failed synthesis to the code
\* after _speak, a failed sink delivery and a failed hangup to the handler of
\* the loop, and the handler to the while condition.
NoFaultExitsLoop ==
    [][\A i \in Loops :
          LET t == tasks[i]
              u == tasks'[i]
              flag == IF t.kind = "loop" THEN is_active ELSE is_recording
              raised == u.response.status = "raise"
          IN  /\ (t.pc # "done" /\ u.pc = "done")
                    => /\ \/ t.pc = "top" /\ ~flag
                          \/ /\ t.pc = "end_sleep" /\ hangups' = hangups + 1
                             /\ inv_state # "DISCONNECTED"
                       /\ t.audio_data # "unset"
                             => (inv_state = "DISCONNECTED" \/ hangups' >= 1)
              /\ (t.pc = "transcribe" /\ u # t /\ raised)
                    => IF t.kind = "loop"
                       THEN u.pc = "speak" /\ u.site = "nospeech"
                       ELSE u.pc = "top"
              /\ (t.pc = "generate" /\ u # t /\ raised)
                    => /\ u.pc = "speak" /\ u.site = "response"
                       /\ u.text = APOLOGY /\ u.should_end
              /\ (t.pc = "speak" /\ u.pc # "speak")
                    => u.pc \in {"top", "end_sleep"}
              /\ (t.pc = "send" /\ u # t) => u.pc \in {"top", "except_sleep"}
              /\ (t.pc = "end_sleep" /\ u # t /\ inv_state = "DISCONNECTED")
                    => u.pc = "except_sleep"
              /\ (t.pc = "except_sleep" /\ u # t) => u.pc = "top"]_vars

\* the delivery of a transcript to the sink raised, the handler of the
\* transcription loop caught it and the loop is alive on a recorded call
FaultCaughtWitness ==
    \E i \in TLoops :
        /\ tasks[i].pc = "except_sleep"
        /\ sink = << <<"H", "i">> >>
        /\ is_recording /\ inv_state = "CONFIRMED"

====
